---------------------------- MODULE Spec2Model ----------------------------
(***************************************************************************)
(* Model of the anatomy viewer: the host (App) and the AnatomyViewer       *)
(* component it mounts.  The host owns selectedOrgan, selectedSystem,      *)
(* painIntensity and activeSymptoms; the viewer owns the scene, the        *)
(* current model (modelRef), the mesh registry (organsRef), the load-state *)
(* signal (isLoading), the asynchronous model loads, the camera with its   *)
(* animations, and the render loops.                                       *)
(*                                                                         *)
(* Strings are the program's strings.  Emissive colours are written as     *)
(* their hex literals; emissive intensities are in thousandths (0.8 is     *)
(* 800).  A scene is identified by the number of the mount-effect run that *)
(* created it, a model by the number of the load that produced it.         *)
(* Time is in tenths of a second, coordinates are in thousandths, and the  *)
(* rotation of a model is in steps of 0.005 rad.                           *)
(***************************************************************************)
EXTENDS Integers, Sequences, FiniteSets, TLC

VARIABLES
  selectedOrgan,     \* App: name of the selected organ, or Undefined
  selectedSystem,    \* App: selected system identifier
  painIntensity,     \* App: pain slider value
  activeSymptoms,    \* App: sequence of active symptom ids
  sceneRef,          \* viewer: the current scene
  modelRef,          \* viewer: the current model, or NoModel
  organsRef,         \* viewer: mesh registry, mesh name -> <<model, index>>
  currentSystemRef,  \* viewer: system the last load was started for
  isLoading,         \* viewer: load-state signal
  loads,             \* sequence of started loads: systemType, scene, status
  models,            \* model id -> [parent, placeholder, meshes]
  lastClick,         \* the last pointer click and the events it emitted
  hlApplied,         \* the highlight pass has run on modelRef with the current inputs
  currentView,       \* App: name of the camera preset last chosen
  camera,            \* viewer: cameraRef's position and controlsRef's target
  animations,        \* the camera animations requested so far, oldest first
  now,               \* Date.now()
  dragging,          \* the orbit controls are between their 'start' and 'end' events
  rotationY,         \* model id -> rotation.y of the model
  released           \* what the last run of the mount effect's cleanup released, in order

vars == <<selectedOrgan, selectedSystem, painIntensity, activeSymptoms, sceneRef,
          modelRef, organsRef, currentSystemRef, isLoading, loads, models,
          lastClick, hlApplied, currentView, camera, animations, now, dragging,
          rotationY, released>>

hostVars == <<selectedOrgan, selectedSystem, painIntensity, activeSymptoms>>

viewerVars == <<sceneRef, modelRef, organsRef, currentSystemRef, isLoading, loads, models>>

\* What the frame callbacks read and write besides the current model.
frameVars == <<camera, animations, now, dragging, rotationY>>

-----------------------------------------------------------------------------
(* Bounds of the model *)

\* Loads started in a behaviour (each mount-effect run starts one).
MaxLoads == 3

\* The host toggles the first MaxSymptoms entries of the symptom table.
MaxSymptoms == 2

\* Frames are delivered until Date.now() reaches MaxTime.
MaxTime == 12

\* Camera animations requested in a behaviour.
MaxAnimations == 2

-----------------------------------------------------------------------------
(* Values *)

Undefined == "<undefined>"

NoModel == 0

NoScene == 0

\* intersects is empty
NoHit == <<0, 0>>

\* No click has been handled yet.
NoClick == [ran |-> FALSE, hit |-> NoHit, emitted |-> <<>>]

Black == "0x000000"

SelectedColor == "0x0066ff"

PainColor == "0xff0000"

\* mat.emissiveIntensity = 0.8
SelectedIntensity == 800

\* emissiveIntensity of a MeshPhongMaterial constructed without one
DefaultIntensity == 1000

MinPain == 0

MaxPain == 10

Systems == {"all", "skeletal", "muscular", "circulatory", "respiratory",
            "nervous", "digestive", "urinary"}

\* name column of organDatabase
organDatabase == <<"Heart", "Liver", "Lungs", "Stomach", "Kidneys", "Brain", "Spine">>

\* id and affectedOrgans columns of symptomDatabase
symptomDatabase ==
  << [id |-> "chest-pain",       affectedOrgans |-> <<"Heart", "Lungs">>],
     [id |-> "shortness-breath", affectedOrgans |-> <<"Heart", "Lungs">>],
     [id |-> "abdominal-pain",   affectedOrgans |-> <<"Stomach", "Liver">>],
     [id |-> "headache",         affectedOrgans |-> <<"Brain">>],
     [id |-> "back-pain",        affectedOrgans |-> <<"Spine", "Kidneys">>],
     [id |-> "nausea",           affectedOrgans |-> <<"Stomach", "Liver">>],
     [id |-> "fatigue",          affectedOrgans |-> <<"Heart", "Liver">>],
     [id |-> "dizziness",        affectedOrgans |-> <<"Brain", "Heart">>] >>

\* Scene graphs a model file can hold: the authored names of its meshes.
GltfScenes ==
  { <<"Heart_mesh_01", "Lungs_L", "Kidney_L">>,
    <<"Heart", "", "">> }

\* The authored names of the nodes above each mesh of a scene graph, nearest
\* first.  No callback of the viewer reads them.
GltfAncestors(names) ==
  IF names = <<"Heart", "", "">>
  THEN << <<"Organs", "Scene">>, <<"Liver", "Organs", "Scene">>, <<"", "Scene">> >>
  ELSE [i \in DOMAIN names |-> <<"Scene">>]

\* Systems the host selects, and values it moves the pain slider to.
HostSystems == {"all", "nervous", "digestive"}

PainLevels == {0, 6, 10}

-----------------------------------------------------------------------------
(* String.prototype.toLowerCase and String.prototype.includes *)

UpperChars == "ABCDEFGHIJKLMNOPQRSTUVWXYZ"

LowerChars == "abcdefghijklmnopqrstuvwxyz"

\* The lower-case letter of each upper-case letter.
UpperToLower ==
  [c \in {SubSeq(UpperChars, i, i) : i \in 1..Len(UpperChars)} |->
     LET i == CHOOSE j \in 1..Len(UpperChars) : SubSeq(UpperChars, j, j) = c
     IN  SubSeq(LowerChars, i, i)]

toLowerChar(c) == IF c \in DOMAIN UpperToLower THEN UpperToLower[c] ELSE c

RECURSIVE toLowerCase(_)
toLowerCase(s) ==
  IF Len(s) = 0 THEN ""
  ELSE toLowerChar(SubSeq(s, 1, 1)) \o toLowerCase(SubSeq(s, 2, Len(s)))

includes(s, t) ==
  \E i \in 0..(Len(s) - Len(t)) : SubSeq(s, i + 1, i + Len(t)) = t

\* JavaScript truthiness of a string-or-undefined value
Truthy(x) == x # Undefined /\ x # ""

\* a || b
OrElse(a, b) == IF Truthy(a) THEN a ELSE b

-----------------------------------------------------------------------------
(* createFallbackGeometry *)

systemOrgans ==
  [ skeletal    |-> <<"Skull", "Spine", "Ribs", "Pelvis">>,
    circulatory |-> <<"Heart", "Aorta", "Arteries", "Veins">>,
    nervous     |-> <<"Brain", "Spinal Cord", "Nerves">>,
    digestive   |-> <<"Stomach", "Liver", "Intestines", "Kidneys">>,
    muscular    |-> <<"Biceps", "Chest Muscles", "Abdominals", "Quadriceps">> ]

\* Mutant: no default table for a system without one.
createFallbackGeometryNoDefault(systemType) ==
  IF systemType \in DOMAIN systemOrgans THEN systemOrgans[systemType] ELSE << >>

\* Mesh names of the placeholder group built for systemType.
createFallbackGeometry(systemType) ==
  IF systemType \in DOMAIN systemOrgans
  THEN systemOrgans[systemType]
  ELSE systemOrgans["digestive"]

\* A mesh as the load callbacks leave it: a fresh Phong material with a black
\* emissive colour, userData.layer and userData.name set.
NewMesh(name, systemType) ==
  [ name              |-> name,
    userDataName      |-> name,
    layer             |-> systemType,
    emissive          |-> Black,
    emissiveIntensity |-> DefaultIntensity ]

-----------------------------------------------------------------------------
(* The viewer's refs and state as one record, so that the callbacks below  *)
(* can be composed in the order React runs them.                           *)

View ==
  [ sceneRef         |-> sceneRef,
    modelRef         |-> modelRef,
    organsRef        |-> organsRef,
    currentSystemRef |-> currentSystemRef,
    isLoading        |-> isLoading,
    loads            |-> loads,
    models           |-> models ]

SetView(v) ==
  \E w \in {v} :
    /\ sceneRef' = w.sceneRef
    /\ modelRef' = w.modelRef
    /\ organsRef' = w.organsRef
    /\ currentSystemRef' = w.currentSystemRef
    /\ isLoading' = w.isLoading
    /\ loads' = w.loads
    /\ models' = w.models

Pending(ls) == {l \in 1..Len(ls) : ls[l].status = "pending"}

-----------------------------------------------------------------------------
(* loadSystemModel and its two continuations *)

\* loader.load(modelPath, onLoad, undefined, onError): the load is in flight,
\* its callbacks hold systemType and scene.
loadSystemModel(v, systemType, scene) ==
  [v EXCEPT !.loads = Append(@, [systemType |-> systemType, scene |-> scene,
                                 status |-> "pending"])]

\* organsMap.set(child.name, child) for every mesh, in traversal order.
RegisterMeshes(organsMap, l, names) ==
  LET new == {names[i] : i \in 1..Len(names)}
      last(n) == CHOOSE i \in 1..Len(names) :
                   /\ names[i] = n
                   /\ \A j \in 1..Len(names) : names[j] = n => j <= i
  IN  [n \in DOMAIN organsMap \cup new |->
         IF n \in new THEN <<l, last(n)>> ELSE organsMap[n]]

\* The model a continuation of load l builds from the mesh names and adds to
\* the scene the load was started with.
AddModel(v, l, names, placeholder) ==
  LET systemType == v.loads[l].systemType
      model == [ parent      |-> v.loads[l].scene,
                 placeholder |-> placeholder,
                 meshes      |-> [i \in 1..Len(names) |-> NewMesh(names[i], systemType)] ]
  IN  [v EXCEPT !.organsRef = RegisterMeshes(@, l, names),
                !.models    = (l :> model) @@ @,
                !.modelRef  = l,
                !.isLoading = FALSE]

\* onLoad callback: gltf.scene holds meshes with these names.
onLoad(v, l, names) ==
  AddModel([v EXCEPT !.loads[l].status = "loaded"], l, names, FALSE)

\* Mutant: the error callback only logs.
onErrorOnlyLogs(v, l) == [v EXCEPT !.loads[l].status = "failed"]

\* onError callback: fallback geometry for the load's system.
onError(v, l) ==
  AddModel([v EXCEPT !.loads[l].status = "failed"], l,
           createFallbackGeometry(v.loads[l].systemType), TRUE)

-----------------------------------------------------------------------------
(* The highlight effect, deps [affectedOrgans, painIntensity, selectedOrgan] *)

\* const meshName = child.name || child.userData.name || ''
MeshName(mesh) == OrElse(OrElse(mesh.name, mesh.userDataName), "")

isSelected(meshName, organ) ==
  /\ Truthy(organ)
  /\ \/ meshName = organ
     \/ includes(toLowerCase(meshName), toLowerCase(organ))
     \/ includes(toLowerCase(organ), toLowerCase(meshName))

isAffected(meshName, affectedOrgans) ==
  \E k \in 1..Len(affectedOrgans) :
    \/ meshName = affectedOrgans[k]
    \/ includes(toLowerCase(meshName), toLowerCase(affectedOrgans[k]))
    \/ includes(toLowerCase(affectedOrgans[k]), toLowerCase(meshName))

\* Mutant: the halving of the pain tint's intensity is left out.
PainEmissiveIntensityUncapped(pain) == (pain * 1000) \div 10

\* intensity = painIntensity / 10; mat.emissiveIntensity = intensity * 0.5
PainEmissiveIntensity(pain) ==
  LET intensity == (pain * 1000) \div 10
  IN  (intensity * 5) \div 10

\* First traversal: mat.emissive.setHex(0x000000); mat.emissiveIntensity = 0
ResetMesh(mesh) == [mesh EXCEPT !.emissive = Black, !.emissiveIntensity = 0]

\* Mutant: the affected branch is tested before the selected branch.
HighlightMeshPainFirst(mesh, organ, affectedOrgans, pain) ==
  IF isAffected(MeshName(mesh), affectedOrgans)
  THEN [mesh EXCEPT !.emissive = PainColor,
                    !.emissiveIntensity = PainEmissiveIntensity(pain)]
  ELSE IF isSelected(MeshName(mesh), organ)
       THEN [mesh EXCEPT !.emissive = SelectedColor,
                         !.emissiveIntensity = SelectedIntensity]
       ELSE mesh

\* Second traversal, one mesh.
HighlightMesh(mesh, organ, affectedOrgans, pain) ==
  IF isSelected(MeshName(mesh), organ)
  THEN [mesh EXCEPT !.emissive = SelectedColor, !.emissiveIntensity = SelectedIntensity]
  ELSE IF isAffected(MeshName(mesh), affectedOrgans)
       THEN [mesh EXCEPT !.emissive = PainColor,
                         !.emissiveIntensity = PainEmissiveIntensity(pain)]
       ELSE mesh

\* Mutant: no reset traversal; an affected mesh that already glows red gets
\* the pain intensity added to the one it has.
HighlightPassAdding(meshes, organ, affectedOrgans, pain) ==
  [i \in DOMAIN meshes |->
     IF /\ ~isSelected(MeshName(meshes[i]), organ)
        /\ isAffected(MeshName(meshes[i]), affectedOrgans)
        /\ meshes[i].emissive = PainColor
     THEN [meshes[i] EXCEPT !.emissiveIntensity = @ + PainEmissiveIntensity(pain)]
     ELSE HighlightMesh(ResetMesh(meshes[i]), organ, affectedOrgans, pain)]

\* Mutant: the reset traversal is left out.
HighlightPassNoReset(meshes, organ, affectedOrgans, pain) ==
  [i \in DOMAIN meshes |-> HighlightMesh(meshes[i], organ, affectedOrgans, pain)]

\* Both traversals over the meshes of one model.
HighlightPass(meshes, organ, affectedOrgans, pain) ==
  [i \in DOMAIN meshes |->
     HighlightMesh(ResetMesh(meshes[i]), organ, affectedOrgans, pain)]

\* Mutant: the early return is left out.
HighlightRunsAlways(v) == v.modelRef # NoModel \/ DOMAIN v.organsRef = {}

\* if (!modelRef.current || organsRef.current.size === 0) return
HighlightRuns(v) == v.modelRef # NoModel /\ DOMAIN v.organsRef # {}

HighlightEffect(v, organ, affectedOrgans, pain) ==
  IF HighlightRuns(v)
  THEN [v EXCEPT !.models[v.modelRef].meshes =
                   HighlightPass(@, organ, affectedOrgans, pain)]
  ELSE v

-----------------------------------------------------------------------------
(* The mount effect, deps [onOrganClick], and the system effect,           *)
(* deps [selectedSystem]                                                   *)

\* A run of the mount effect: a new scene, camera, renderer and controls,
\* setIsLoading(true), loadSystemModel(selectedSystem, scene, ...),
\* currentSystemRef.current = selectedSystem.
MountEffect(v, system) ==
  LET scene == v.sceneRef + 1
      w == [v EXCEPT !.sceneRef = scene, !.isLoading = TRUE]
  IN  [loadSystemModel(w, system, scene) EXCEPT !.currentSystemRef = system]

\* Mutant: the comparison with currentSystemRef is left out.
SystemEffectUnguarded(v, system) ==
  IF v.sceneRef # NoScene
  THEN LET detached ==
             IF v.modelRef # NoModel
             THEN [v EXCEPT !.models[v.modelRef].parent =
                              IF @ = v.sceneRef THEN NoScene ELSE @,
                            !.modelRef = NoModel]
             ELSE v
           cleared == [detached EXCEPT !.isLoading = TRUE, !.organsRef = << >>]
       IN  [loadSystemModel(cleared, system, cleared.sceneRef)
              EXCEPT !.currentSystemRef = system]
  ELSE v

SystemEffect(v, system) ==
  IF v.currentSystemRef # system /\ v.sceneRef # NoScene
  THEN LET detached ==
             IF v.modelRef # NoModel
             THEN [v EXCEPT !.models[v.modelRef].parent =
                              IF @ = v.sceneRef THEN NoScene ELSE @,
                            !.modelRef = NoModel]
             ELSE v
           cleared == [detached EXCEPT !.isLoading = TRUE, !.organsRef = << >>]
       IN  [loadSystemModel(cleared, system, cleared.sceneRef)
              EXCEPT !.currentSystemRef = system]
  ELSE v


-----------------------------------------------------------------------------
(* The camera: setCameraPosition, resetCamera and their frame callbacks    *)

\* camera.position.set(0, 0, 2.2); new THREE.Vector3(0, 0, 2.2)
DefaultPosition == <<0, 0, 2200>>

\* target of a new OrbitControls; new THREE.Vector3(0, 0, 0)
DefaultTarget == <<0, 0, 0>>

\* The camera and controls a run of the mount effect creates.
NewCamera == [position |-> DefaultPosition, target |-> DefaultTarget]

\* const duration = 1000 (setCameraPosition), in tenths of a second
SetCameraDuration == 10

\* const duration = 800 (resetCamera), in tenths of a second
ResetDuration == 8

\* name, position and target columns of cameraPresets
cameraPresets ==
  << [name |-> "Front View",  position |-> <<0, 0, 5000>>,    target |-> <<0, 0, 0>>],
     [name |-> "Back View",   position |-> <<0, 0, -5000>>,   target |-> <<0, 0, 0>>],
     [name |-> "Side View",   position |-> <<5000, 0, 0>>,    target |-> <<0, 0, 0>>],
     [name |-> "Top View",    position |-> <<0, 5000, 0>>,    target |-> <<0, 0, 0>>],
     [name |-> "Head Focus",  position |-> <<0, 2000, 3000>>, target |-> <<0, 1200, 0>>],
     [name |-> "Torso Focus", position |-> <<0, 0, 3000>>,    target |-> <<0, 300, 0>>] >>

\* Presets the host chooses, and the times between two frames.
HostPresets == {1, 5}

FramePeriods == {1, 2}

\* v1 + (v2 - v1) * alpha, alpha = num / den, per component
lerpVectors(v1, v2, num, den) ==
  [i \in 1..3 |-> v1[i] + ((v2[i] - v1[i]) * num) \div den]

\* The closure of one animate callback: the handle method that made it, the
\* poses it interpolates between, its duration and its start time; scheduled
\* tells whether a frame of it is requested.
Animation(method, cam, position, target, duration) ==
  [ method      |-> method,
    startPos    |-> cam.position,
    startTarget |-> cam.target,
    position    |-> position,
    target      |-> target,
    duration    |-> duration,
    startTime   |-> now,
    scheduled   |-> FALSE ]

\* progress = Math.min(elapsed / duration, 1) < 1
InProgress(a, t) == t - a.startTime < a.duration

\* Mutant: progress is elapsed / duration without Math.min(..., 1).
AnimateStepUnclamped(cam, a, t) ==
  LET e   == t - a.startTime
      den == a.duration * a.duration * a.duration
      num == den - (a.duration - e) * (a.duration - e) * (a.duration - e)
  IN  [ position |-> [i \in 1..3 |->
                        a.startPos[i] + ((a.position[i] - a.startPos[i]) * num) \div den],
        target   |-> [i \in 1..3 |->
                        a.startTarget[i] + ((a.target[i] - a.startTarget[i]) * num) \div den] ]

\* One call of animate at time t: easeProgress = 1 - (1 - progress)^3, the
\* two lerpVectors writes, controls.update().  With no pointer input pending
\* and the distance within [minDistance, maxDistance], update() keeps the
\* position and the target.
AnimateStep(cam, a, t) ==
  LET elapsed == t - a.startTime
      e   == IF elapsed < a.duration THEN elapsed ELSE a.duration
      den == a.duration * a.duration * a.duration
      num == den - (a.duration - e) * (a.duration - e) * (a.duration - e)
  IN  [ position |-> lerpVectors(a.startPos, a.position, num, den),
        target   |-> lerpVectors(a.startTarget, a.target, num, den) ]

\* The animate callbacks of the requested frames, run oldest first.
RECURSIVE RunAnimations(_, _, _)
RunAnimations(cam, as, t) ==
  IF as = << >> THEN cam
  ELSE RunAnimations(IF Head(as).scheduled THEN AnimateStep(cam, Head(as), t) ELSE cam,
                     Tail(as), t)

\* if (progress < 1) requestAnimationFrame(animate)
Rescheduled(as, t) ==
  [i \in DOMAIN as |-> [as[i] EXCEPT !.scheduled = @ /\ InProgress(as[i], t)]]

\* The first, synchronous call animate() of a new animation.
Started(a) == [a EXCEPT !.scheduled = InProgress(a, now)]

\* modelRef.current.rotation.y += 0.005, in each of the render loops
Rotate(rot, model, loops) ==
  IF model = NoModel THEN rot
  ELSE (model :> ((IF model \in DOMAIN rot THEN rot[model] ELSE 0) + loops)) @@ rot

RotationOf(model) == IF model \in DOMAIN rotationY THEN rotationY[model] ELSE 0

\* The cleanup of the mount effect, as the calls it makes, in order.
Cleanup ==
  << "window.removeEventListener:resize",
     "domElement.removeEventListener:click",
     "container.removeChild:domElement",
     "renderer.dispose" >>

-----------------------------------------------------------------------------
(* The host, App *)

\* activeSymptoms.flatMap(id => symptomDatabase.find(s => s.id === id)?.affectedOrgans ?? [])
RECURSIVE affectedOrgansOf(_)
affectedOrgansOf(symptoms) ==
  IF symptoms = << >> THEN << >>
  ELSE LET found == {k \in 1..Len(symptomDatabase) : symptomDatabase[k].id = Head(symptoms)}
           first == CHOOSE k \in found : \A j \in found : k <= j
       IN  (IF found = {} THEN << >> ELSE symptomDatabase[first].affectedOrgans)
           \o affectedOrgansOf(Tail(symptoms))

\* A render of App with a changed state: handleOrganClick and affectedOrgans
\* are new objects, so in the viewer the mount effect is cleaned up and run
\* again, then the system effect and the highlight effect run, in this order.
\* The cleanup releases the listeners, the canvas and the renderer; the run
\* creates a new camera and new controls and calls animate() once, which
\* starts one more render loop.
Render(system, organ, symptoms, pain) ==
  LET v1 == MountEffect(View, system)
      v2 == SystemEffect(v1, system)
      v3 == HighlightEffect(v2, organ, affectedOrgansOf(symptoms), pain)
  IN  /\ selectedSystem' = system
      /\ selectedOrgan' = organ
      /\ activeSymptoms' = symptoms
      /\ painIntensity' = pain
      /\ SetView(v3)
      /\ hlApplied' = HighlightRuns(v2)
      /\ released' = Cleanup
      /\ camera' = NewCamera
      /\ dragging' = FALSE
      /\ rotationY' = Rotate(rotationY, modelRef, 1)

\* A render caused by a change of selectedSystem, selectedOrgan,
\* activeSymptoms or painIntensity.
Commit(system, organ, symptoms, pain) ==
  /\ Render(system, organ, symptoms, pain)
  /\ UNCHANGED <<currentView, animations, now>>

CanRender == Len(loads) < MaxLoads

DatabaseNames == {organDatabase[k] : k \in 1..Len(organDatabase)}

\* Mutant: the organ is looked up by a case-insensitive substring of the
\* emitted name.
handleOrganClickLoose(organName) ==
  LET found == {k \in 1..Len(organDatabase) :
                  includes(toLowerCase(organName), toLowerCase(organDatabase[k]))}
      first == CHOOSE k \in found : \A j \in found : k <= j
  IN  IF found # {} /\ organDatabase[first] # selectedOrgan
      THEN /\ CanRender
           /\ Commit(selectedSystem, organDatabase[first], activeSymptoms, painIntensity)
      ELSE UNCHANGED <<hostVars, viewerVars, hlApplied, currentView, frameVars, released>>

\* handleOrganClick, then the render its state change causes.
handleOrganClick(organName) ==
  IF organName \in DatabaseNames /\ organName # selectedOrgan
  THEN /\ CanRender
       /\ Commit(selectedSystem, organName, activeSymptoms, painIntensity)
  ELSE UNCHANGED <<hostVars, viewerVars, hlApplied, currentView, frameVars, released>>

\* handleSystemSelect
SelectSystem(system) ==
  /\ UNCHANGED lastClick
  /\ IF system = selectedSystem
     THEN UNCHANGED <<hostVars, viewerVars, hlApplied, currentView, frameVars, released>>
     ELSE /\ CanRender
          /\ Commit(system, selectedOrgan, activeSymptoms, painIntensity)

\* onPainIntensityChange = setPainIntensity
SetPainIntensity(pain) ==
  /\ UNCHANGED lastClick
  /\ IF pain = painIntensity
     THEN UNCHANGED <<hostVars, viewerVars, hlApplied, currentView, frameVars, released>>
     ELSE /\ CanRender
          /\ Commit(selectedSystem, selectedOrgan, activeSymptoms, pain)

\* prev.includes(id) ? prev.filter(x => x !== id) : [...prev, id]
ToggleInAppendOnly(prev, symptomId) == Append(prev, symptomId)

ToggleIn(prev, symptomId) ==
  IF \E k \in 1..Len(prev) : prev[k] = symptomId
  THEN SelectSeq(prev, LAMBDA x : x # symptomId)
  ELSE Append(prev, symptomId)

handleSymptomToggle(symptomId) ==
  /\ UNCHANGED lastClick
  /\ CanRender
  /\ Commit(selectedSystem, selectedOrgan, ToggleIn(activeSymptoms, symptomId),
            painIntensity)

\* OrganInfo onClose: setSelectedOrgan(null); the panel shows only for a
\* selected organ.
CloseOrganInfo ==
  /\ selectedOrgan # Undefined
  /\ UNCHANGED lastClick
  /\ CanRender
  /\ Commit(selectedSystem, Undefined, activeSymptoms, painIntensity)

\* handleCameraPreset: setCurrentView(preset.name), then setCameraPosition on
\* the camera of this render; a changed currentView renders App again.
handleCameraPreset(k) ==
  LET preset == cameraPresets[k]
      a == Animation("setCameraPosition", camera, preset.position, preset.target,
                     SetCameraDuration)
  IN  /\ Len(animations) < MaxAnimations
      /\ animations' = Append(animations, Started(a))
      /\ currentView' = preset.name
      /\ UNCHANGED <<now, lastClick>>
      /\ IF preset.name = currentView
         THEN /\ camera' = AnimateStep(camera, a, now)
              /\ UNCHANGED <<hostVars, viewerVars, hlApplied, dragging, rotationY,
                             released>>
         ELSE /\ CanRender
              /\ Render(selectedSystem, selectedOrgan, activeSymptoms, painIntensity)

\* The Reset View button: anatomyViewerRef.current?.resetCamera()
resetCamera ==
  LET a == Animation("resetCamera", camera, DefaultPosition, DefaultTarget,
                     ResetDuration)
  IN  /\ Len(animations) < MaxAnimations
      /\ animations' = Append(animations, Started(a))
      /\ camera' = AnimateStep(camera, a, now)
      /\ UNCHANGED <<hostVars, viewerVars, lastClick, hlApplied, currentView, now,
                     dragging, rotationY, released>>

-----------------------------------------------------------------------------
(* Frames and the orbit controls *)

\* The render loops that request a frame: the mount effect starts one each
\* time it runs and its cleanup cancels none.
RenderLoops == sceneRef

\* One display frame, dt after the last: the requested callbacks run.  Each
\* render loop rotates the current model; the camera animations write the
\* camera, oldest first.
AnimationFrame(dt) ==
  /\ now + dt <= MaxTime
  /\ now' = now + dt
  /\ rotationY' = Rotate(rotationY, modelRef, RenderLoops)
  /\ camera' = RunAnimations(camera, animations, now + dt)
  /\ animations' = Rescheduled(animations, now + dt)
  /\ UNCHANGED <<hostVars, viewerVars, lastClick, hlApplied, currentView, dragging,
                 released>>

\* Pointer down on the canvas: the controls dispatch 'start'.
ControlsStart ==
  /\ ~dragging
  /\ dragging' = TRUE
  /\ UNCHANGED <<hostVars, viewerVars, lastClick, hlApplied, currentView, camera,
                 animations, now, rotationY, released>>

\* Pointer up: the controls dispatch 'end'.
ControlsEnd ==
  /\ dragging
  /\ dragging' = FALSE
  /\ UNCHANGED <<hostVars, viewerVars, lastClick, hlApplied, currentView, camera,
                 animations, now, rotationY, released>>

-----------------------------------------------------------------------------
(* handleClick *)

\* Mutant: no literal label at the end of the chain.
ResolveNameNoLiteral(mesh) == OrElse(mesh.userDataName, mesh.name)

\* The name handleClick passes to onOrganClick for the nearest hit mesh.
ResolveName(mesh) ==
  LET organName == OrElse(mesh.userDataName, mesh.name)
      meshName == toLowerCase(mesh.name)
  IN  IF ~Truthy(organName)
      THEN IF includes(meshName, "heart") THEN "Heart"
           ELSE IF includes(meshName, "liver") THEN "Liver"
           ELSE IF includes(meshName, "lung") THEN "Lungs"
           ELSE IF includes(meshName, "stomach") THEN "Stomach"
           ELSE IF includes(meshName, "kidney") THEN "Kidneys"
           ELSE IF includes(meshName, "brain") THEN "Brain"
           ELSE IF includes(meshName, "spine") \/ includes(meshName, "vertebra")
                THEN "Spine"
           ELSE OrElse(mesh.name, "Unknown Organ")
      ELSE organName

\* Meshes under scene.children of the current scene: what the ray can hit.
Drawable ==
  {h \in (DOMAIN models) \X (1..4) :
     /\ models[h[1]].parent = sceneRef
     /\ h[2] \in DOMAIN models[h[1]].meshes}

\* The events handleClick emits when intersects[0].object is the mesh hit.
EventsOfClick(hit) == <<ResolveName(models[hit[1]].meshes[hit[2]])>>

\* Mutant: the test intersects.length > 0 is left out and a click that hits
\* nothing reports the literal label.
handleClickEmitsOnMiss(hit) ==
  IF hit \in Drawable
  THEN /\ lastClick' = [ran |-> TRUE, hit |-> hit, emitted |-> EventsOfClick(hit)]
       /\ handleOrganClick(EventsOfClick(hit)[1])
  ELSE /\ lastClick' = [ran |-> TRUE, hit |-> NoHit, emitted |-> <<"Unknown Organ">>]
       /\ handleOrganClick("Unknown Organ")

\* A pointer click whose ray goes through the place hit: the nearest mesh
\* there, or nothing.
handleClick(hit) ==
  IF hit \in Drawable
  THEN /\ lastClick' = [ran |-> TRUE, hit |-> hit, emitted |-> EventsOfClick(hit)]
       /\ handleOrganClick(EventsOfClick(hit)[1])
  ELSE /\ lastClick' = [ran |-> TRUE, hit |-> NoHit, emitted |-> << >>]
       /\ UNCHANGED <<hostVars, viewerVars, hlApplied, currentView, frameVars, released>>

-----------------------------------------------------------------------------
(* Completion of a load *)

LoadSucceeds(l, names) ==
  /\ l \in Pending(loads)
  /\ SetView(onLoad(View, l, names))
  /\ hlApplied' = FALSE
  /\ UNCHANGED <<hostVars, lastClick, currentView, frameVars, released>>

LoadFails(l) ==
  /\ l \in Pending(loads)
  /\ SetView(onError(View, l))
  /\ hlApplied' = FALSE
  /\ UNCHANGED <<hostVars, lastClick, currentView, frameVars, released>>

-----------------------------------------------------------------------------
(* The program *)

Unmounted ==
  [ sceneRef         |-> NoScene,
    modelRef         |-> NoModel,
    organsRef        |-> << >>,
    currentSystemRef |-> "",
    isLoading        |-> TRUE,
    loads            |-> << >>,
    models           |-> << >> ]

\* App's initial state and the viewer after its first effects have run.
Init ==
  /\ selectedOrgan = Undefined
  /\ selectedSystem = "all"
  /\ painIntensity = 0
  /\ activeSymptoms = << >>
  /\ LET v == HighlightEffect(SystemEffect(MountEffect(Unmounted, "all"), "all"),
                              Undefined, << >>, 0)
     IN  /\ sceneRef = v.sceneRef
         /\ modelRef = v.modelRef
         /\ organsRef = v.organsRef
         /\ currentSystemRef = v.currentSystemRef
         /\ isLoading = v.isLoading
         /\ loads = v.loads
         /\ models = v.models
  /\ lastClick = NoClick
  /\ hlApplied = FALSE
  /\ currentView = "default"
  /\ camera = NewCamera
  /\ animations = << >>
  /\ now = 0
  /\ dragging = FALSE
  /\ rotationY = << >>
  /\ released = << >>

SymptomIds == {symptomDatabase[k].id : k \in 1..MaxSymptoms}

Next ==
  \/ \E system \in HostSystems : SelectSystem(system)
  \/ \E pain \in PainLevels : SetPainIntensity(pain)
  \/ \E symptomId \in SymptomIds : handleSymptomToggle(symptomId)
  \/ CloseOrganInfo
  \/ \E hit \in (1..MaxLoads) \X (1..4) : handleClick(hit)
  \/ \E l \in 1..MaxLoads, names \in GltfScenes : LoadSucceeds(l, names)
  \/ \E l \in 1..MaxLoads : LoadFails(l)

Spec == Init /\ [][Next]_vars

-----------------------------------------------------------------------------
(* The system-selection part of the program: the host changes only the     *)
(* selected system, over the whole enumeration.                            *)

SystemNext ==
  \/ \E system \in Systems : SelectSystem(system)
  \/ \E l \in 1..MaxLoads, names \in GltfScenes : LoadSucceeds(l, names)
  \/ \E l \in 1..MaxLoads : LoadFails(l)

SystemSpec == Init /\ [][SystemNext]_vars

-----------------------------------------------------------------------------
(* Delivery of the load callbacks: the loader calls one of the two         *)
(* callbacks of every load it was given.                                   *)

LoadSettles ==
  \/ \E l \in 1..MaxLoads, names \in GltfScenes : LoadSucceeds(l, names)
  \/ \E l \in 1..MaxLoads : LoadFails(l)

LoadNext ==
  \/ \E system \in HostSystems : SelectSystem(system)
  \/ \E l \in 1..MaxLoads, names \in GltfScenes : LoadSucceeds(l, names)
  \/ \E l \in 1..MaxLoads : LoadFails(l)

LoadSpec == Init /\ [][LoadNext]_vars /\ WF_vars(LoadSettles)

-----------------------------------------------------------------------------
(* The camera: the host chooses presets and resets the camera while frames *)
(* are delivered.                                                          *)

CameraNext ==
  \/ \E k \in HostPresets : handleCameraPreset(k)
  \/ resetCamera
  \/ \E dt \in FramePeriods : AnimationFrame(dt)

CameraSpec == Init /\ [][CameraNext]_vars

-----------------------------------------------------------------------------
(* The render loop: the user drags the orbit controls while frames are     *)
(* delivered and the load completes.                                       *)

RenderNext ==
  \/ ControlsStart
  \/ ControlsEnd
  \/ \E dt \in FramePeriods : AnimationFrame(dt)
  \/ \E l \in 1..MaxLoads, names \in GltfScenes : LoadSucceeds(l, names)
  \/ \E l \in 1..MaxLoads : LoadFails(l)

RenderSpec == Init /\ [][RenderNext]_vars

-----------------------------------------------------------------------------
(* Re-initialisation: the host changes the pain intensity, which renders   *)
(* App and runs the viewer's mount effect again, while frames are          *)
(* delivered and the loads complete.                                       *)

ReinitNext ==
  \/ \E pain \in PainLevels : SetPainIntensity(pain)
  \/ \E dt \in FramePeriods : AnimationFrame(dt)
  \/ \E l \in 1..MaxLoads, names \in GltfScenes : LoadSucceeds(l, names)
  \/ \E l \in 1..MaxLoads : LoadFails(l)

ReinitSpec == Init /\ [][ReinitNext]_vars

-----------------------------------------------------------------------------
(* Apply Highlight State as a function of its inputs: a loaded model whose *)
(* meshes carry any earlier tints, and any selected organ, active symptoms *)
(* and pain intensity.                                                     *)

\* Tints a mesh can carry from earlier passes, or none yet.
PriorTints ==
  { [emissive |-> Black,         emissiveIntensity |-> DefaultIntensity],
    [emissive |-> SelectedColor, emissiveIntensity |-> SelectedIntensity],
    [emissive |-> PainColor,     emissiveIntensity |-> PainEmissiveIntensity(6)] }

\* Mesh names of the loaded model: a model file's, or the placeholders'.
HighlightScenes == GltfScenes \cup {createFallbackGeometry("all")}

\* Orders in which the host's symptoms can have been switched on.
SymptomLists ==
  {q \in UNION {[1..n -> SymptomIds] : n \in 0..MaxSymptoms} :
     \A i, j \in 1..Len(q) : i # j => q[i] # q[j]}

LoadedView(names, tints) ==
  LET v == onLoad(MountEffect(Unmounted, "all"), 1, names)
  IN  [v EXCEPT !.models[1].meshes =
         [i \in DOMAIN @ |-> [@[i] EXCEPT !.emissive = tints[i].emissive,
                                          !.emissiveIntensity = tints[i].emissiveIntensity]]]

HighlightInit ==
  /\ selectedSystem = "all"
  /\ selectedOrgan \in DatabaseNames \cup {Undefined}
  /\ activeSymptoms \in SymptomLists
  /\ painIntensity \in MinPain..MaxPain
  /\ \E names \in HighlightScenes :
       \E tints \in [1..Len(names) -> PriorTints] :
         LET v == LoadedView(names, tints)
         IN  /\ sceneRef = v.sceneRef
             /\ modelRef = v.modelRef
             /\ organsRef = v.organsRef
             /\ currentSystemRef = v.currentSystemRef
             /\ isLoading = v.isLoading
             /\ loads = v.loads
             /\ models = v.models
  /\ lastClick = NoClick
  /\ hlApplied = FALSE
  /\ currentView = "default"
  /\ camera = NewCamera
  /\ animations = << >>
  /\ now = 0
  /\ dragging = FALSE
  /\ rotationY = << >>
  /\ released = << >>

\* One run of the highlight effect with the current inputs.
ApplyHighlightState ==
  /\ SetView(HighlightEffect(View, selectedOrgan, affectedOrgansOf(activeSymptoms),
                             painIntensity))
  /\ hlApplied' = HighlightRuns(View)
  /\ UNCHANGED <<hostVars, lastClick, currentView, frameVars, released>>

HighlightNext == ApplyHighlightState

HighlightSpec == HighlightInit /\ [][HighlightNext]_vars

-----------------------------------------------------------------------------
(* Vocabulary of the properties *)

MeshAt(h) == models[h[1]].meshes[h[2]]

CurrentMeshes == models[modelRef].meshes

\* "contains, or is contained by", case-insensitively
NameMatches(a, b) ==
  \/ includes(toLowerCase(a), toLowerCase(b))
  \/ includes(toLowerCase(b), toLowerCase(a))

MatchesSelected(mesh) ==
  selectedOrgan # Undefined /\ NameMatches(mesh.name, selectedOrgan)

MatchesAffected(mesh) ==
  \E k \in 1..Len(affectedOrgansOf(activeSymptoms)) :
    NameMatches(mesh.name, affectedOrgansOf(activeSymptoms)[k])

HasSelectedTint(mesh) ==
  mesh.emissive = SelectedColor /\ mesh.emissiveIntensity = SelectedIntensity

\* The tint Apply Highlight State prescribes for a mesh under the current inputs.
PrescribedTint(mesh) ==
  IF MatchesSelected(mesh)
  THEN [emissive |-> SelectedColor, emissiveIntensity |-> SelectedIntensity]
  ELSE IF MatchesAffected(mesh)
       THEN [emissive |-> PainColor, emissiveIntensity |-> (painIntensity * 1000) \div 20]
       ELSE [emissive |-> Black, emissiveIntensity |-> 0]

\* What a tint shows: a black emissive colour, or any colour at intensity 0,
\* shows no glow.
Glow(tint) ==
  IF tint.emissive = Black \/ tint.emissiveIntensity = 0
  THEN <<Black, 0>>
  ELSE <<tint.emissive, tint.emissiveIntensity>>

SameGlow(mesh, tint) == Glow(mesh) = Glow(tint)

\* A step in which a continuation of load l runs.
Settles(l) == loads[l].status = "pending" /\ loads'[l].status # "pending"

-----------------------------------------------------------------------------
(* Loads and system changes *)

\* C1: once no load is pending, the mesh registry holds only meshes tagged
\* with the most recently requested system identifier.
C1_RegistryOnlyLatestSystem ==
  Pending(loads) = {} =>
    \A n \in DOMAIN organsRef : MeshAt(organsRef[n]).layer = selectedSystem

\* C2: once no load is pending, the current model (modelRef) is the model
\* loaded for the most recently requested system, never an earlier request's.
C2_CurrentModelIsLatestSystem ==
  Pending(loads) = {} =>
    modelRef # NoModel /\ loads[modelRef].systemType = selectedSystem

\* C3: a completion or failure continuation started for a system that is no
\* longer the desired one is discarded: it changes neither the scene's models,
\* nor the registry, nor the current model reference, nor the load-state signal.
C3_StaleContinuationDiscarded ==
  [][\A l \in 1..Len(loads) :
       (Settles(l) /\ loads[l].systemType # selectedSystem)
         => UNCHANGED <<models, organsRef, modelRef, isLoading>>]_vars

-----------------------------------------------------------------------------
(* Apply Highlight State *)

\* C4: after Apply Highlight State, every mesh that matches both the selected
\* organ and an affected organ carries the selected tint (0x0066ff at the
\* fixed selected intensity), never the pain tint, at every pain intensity.
C4_SelectionPrecedesPain ==
  hlApplied =>
    \A i \in DOMAIN CurrentMeshes :
      (MatchesSelected(CurrentMeshes[i]) /\ MatchesAffected(CurrentMeshes[i]))
        => HasSelectedTint(CurrentMeshes[i])

C4_Witness ==
  /\ hlApplied
  /\ painIntensity = MaxPain
  /\ \E i \in DOMAIN CurrentMeshes :
       /\ MatchesSelected(CurrentMeshes[i])
       /\ MatchesAffected(CurrentMeshes[i])
       /\ HasSelectedTint(CurrentMeshes[i])

\* C5: running the highlight pass a second time with the same inputs leaves
\* every mesh with the colour and intensity the first run gave it.
C5_HighlightIdempotent ==
  hlApplied =>
    HighlightPass(CurrentMeshes, selectedOrgan, affectedOrgansOf(activeSymptoms),
                  painIntensity) = CurrentMeshes

C5_Witness ==
  /\ hlApplied
  /\ painIntensity > 0
  /\ \E i \in DOMAIN CurrentMeshes : CurrentMeshes[i].emissive = PainColor
  /\ \E i \in DOMAIN CurrentMeshes : CurrentMeshes[i].emissive = SelectedColor

\* C6: whatever tints the meshes carried before, after the highlight pass each
\* mesh carries the tint the pass gives a freshly loaded copy of the model.
C6_HighlightHistoryIndependent ==
  hlApplied =>
    CurrentMeshes =
      HighlightPass([i \in DOMAIN CurrentMeshes |->
                       NewMesh(CurrentMeshes[i].name, CurrentMeshes[i].layer)],
                    selectedOrgan, affectedOrgansOf(activeSymptoms), painIntensity)

\* A mesh that no input matches and that is neutral after the pass.
C6_Witness ==
  /\ hlApplied
  /\ \E i \in DOMAIN CurrentMeshes :
       /\ ~MatchesSelected(CurrentMeshes[i])
       /\ ~MatchesAffected(CurrentMeshes[i])
       /\ CurrentMeshes[i].emissive = Black
       /\ CurrentMeshes[i].emissiveIntensity = 0
  /\ \E i \in DOMAIN CurrentMeshes : CurrentMeshes[i].emissive # Black

\* C7: an affected mesh that is not selected carries the pain tint at intensity
\* (painIntensity / 10) x 0.5, for every painIntensity in 0..10.
C7_PainIntensityLinear ==
  hlApplied =>
    \A i \in DOMAIN CurrentMeshes :
      (MatchesAffected(CurrentMeshes[i]) /\ ~MatchesSelected(CurrentMeshes[i]))
        => /\ CurrentMeshes[i].emissive = PainColor
           /\ CurrentMeshes[i].emissiveIntensity * 20 = painIntensity * 1000

C7_Witness ==
  /\ hlApplied
  /\ painIntensity = 6
  /\ \E i \in DOMAIN CurrentMeshes :
       /\ MatchesAffected(CurrentMeshes[i])
       /\ ~MatchesSelected(CurrentMeshes[i])
       /\ CurrentMeshes[i].emissiveIntensity = 300

\* C8: whenever a model is loaded and the registry is non-empty, every mesh of
\* the current model shows the tint prescribed by the current selected organ,
\* affected organs and pain intensity, also right after a load completes.
C8_HighlightFollowsState ==
  HighlightRuns(View) =>
    \A i \in DOMAIN CurrentMeshes :
      SameGlow(CurrentMeshes[i], PrescribedTint(CurrentMeshes[i]))

-----------------------------------------------------------------------------
(* Load failure and clicks *)

C10_ClickEmitsOneName ==
  lastClick.hit # NoHit =>
    /\ Len(lastClick.emitted) = 1
    /\ lastClick.emitted[1] # ""
    /\ lastClick.emitted[1] # Undefined
    /\ (~Truthy(MeshAt(lastClick.hit).userDataName) /\ MeshAt(lastClick.hit).name = "")
         => lastClick.emitted[1] = "Unknown Organ"

C10_Witness ==
  /\ lastClick.hit # NoHit
  /\ MeshAt(lastClick.hit).name = ""
  /\ lastClick.emitted = <<"Unknown Organ">>

\* C11: a click whose ray intersects no drawable element emits no organ-click
\* event and changes neither the host's state nor the viewer's (selected
\* organ, registry, model, tints).
C11_MissedClickChangesNothing ==
  [][(lastClick' # lastClick /\ lastClick'.hit = NoHit) =>
       /\ lastClick'.emitted = << >>
       /\ UNCHANGED <<hostVars, viewerVars, hlApplied, currentView, frameVars, released>>]_vars

\* A click into empty space next to a loaded, highlighted model.
C11_Witness ==
  /\ lastClick.ran
  /\ lastClick.hit = NoHit
  /\ lastClick.emitted = << >>
  /\ modelRef # NoModel
  /\ selectedOrgan # Undefined

\* The scene graph above the mesh hit: ancestors of a mesh of a model file,
\* none for a placeholder, whose group has no name.
AncestorsOf(hit) ==
  IF models[hit[1]].placeholder THEN << >>
  ELSE GltfAncestors([i \in DOMAIN models[hit[1]].meshes |->
                        models[hit[1]].meshes[i].name])[hit[2]]

IsGeneric(name) == name \in {"", "Scene"}

\* The name the fallback chain gives: stored label, own name, nearest named
\* non-generic ancestor, the literal.
RECURSIVE NearestNamed(_)
NearestNamed(ancestors) ==
  IF ancestors = << >> THEN "Unknown"
  ELSE IF ~IsGeneric(Head(ancestors)) THEN Head(ancestors)
  ELSE NearestNamed(Tail(ancestors))

ChainName(hit) ==
  IF Truthy(MeshAt(hit).userDataName) THEN MeshAt(hit).userDataName
  ELSE IF ~IsGeneric(MeshAt(hit).name) THEN MeshAt(hit).name
  ELSE NearestNamed(AncestorsOf(hit))

\* C12: the click on a mesh is reported under its stored label if present,
\* else its own name if non-empty and non-generic, else the name of the
\* nearest named non-generic ancestor, else the literal 'Unknown'.
C12_ResolveByFallbackChain ==
  lastClick.hit # NoHit => lastClick.emitted = <<ChainName(lastClick.hit)>>

-----------------------------------------------------------------------------
(* Camera animations, auto-rotation and teardown *)

DefaultPose == [position |-> DefaultPosition, target |-> DefaultTarget]

Scheduled == {i \in DOMAIN animations : animations[i].scheduled}

\* The latest request is a reset made while an earlier setCameraPosition
\* animation was in flight, and the reset's duration has elapsed.
ResetMidFlightElapsed ==
  /\ Len(animations) >= 2
  /\ LET reset == animations[Len(animations)]
     IN  /\ reset.method = "resetCamera"
         /\ \E j \in 1..(Len(animations) - 1) :
              /\ animations[j].method = "setCameraPosition"
              /\ InProgress(animations[j], reset.startTime)
         /\ now >= reset.startTime + reset.duration

\* C13: when Reset Camera is requested while an earlier camera animation is
\* in flight, then from the end of the reset's duration on the camera position
\* and the look-at target equal the default pose.
C13_ResetSettlesAtDefault == ResetMidFlightElapsed => camera = DefaultPose

\* C14: a new camera-animation request abandons the earlier one: at most one
\* camera animation has a frame requested at any time.
C14_OneAnimationDrives == Cardinality(Scheduled) <= 1

\* C15: a frame delivered while the user drags the orbit controls does not
\* advance the rotation of the current model, and a frame delivered after the
\* release advances it.
C15_DragSuspendsRotation ==
  [][(now' # now /\ modelRef # NoModel) =>
       IF dragging
       THEN RotationOf(modelRef)' = RotationOf(modelRef)
       ELSE RotationOf(modelRef)' > RotationOf(modelRef)]_vars

IsListenerRemoval(call) ==
  call \in {"window.removeEventListener:resize", "domElement.removeEventListener:click"}

\* C16: a teardown removes the event listeners, then disposes the renderer,
\* then detaches the current model from the scene, all three, in this order.
C16_TeardownReleasesInOrder ==
  released # << >> =>
    \E j, k \in DOMAIN released :
      /\ j < k
      /\ released[j] = "renderer.dispose"
      /\ released[k] = "scene.remove:model"
      /\ \E i \in 1..(j - 1) : IsListenerRemoval(released[i])
      /\ \A i \in DOMAIN released : IsListenerRemoval(released[i]) => i < j

-----------------------------------------------------------------------------
(* The load-state signal and the system effect *)

\* C17: while the load of the most recent request is in flight, the load-state
\* signal is 'loading'.
C17_LoadingWhileLatestPending ==
  loads[Len(loads)].status = "pending" => isLoading

C19_HighlightNoOpOnEmptyRegistry ==
  [][(DOMAIN organsRef = {} /\ sceneRef' # sceneRef) =>
       (~hlApplied' /\ models' = models)]_vars

\* A render with symptoms active and a pain intensity set, before any load
\* has completed.
C19_Witness ==
  /\ DOMAIN organsRef = {}
  /\ sceneRef >= 2
  /\ painIntensity > 0
  /\ activeSymptoms # << >>
  /\ ~hlApplied

\* C20: a system change detaches the previous model and clears the registry
\* before the replacement load is started, and the registry never holds
\* meshes of two models together.
C20_OldModelGoneBeforeNewLoads ==
  [][/\ selectedSystem' # selectedSystem =>
          /\ organsRef' = << >>
          /\ modelRef' = NoModel
          /\ modelRef # NoModel => models'[modelRef].parent = NoScene
     /\ \A n1, n2 \in DOMAIN organsRef' : organsRef'[n1][1] = organsRef'[n2][1]]_vars

-----------------------------------------------------------------------------
(* Termination *)

\* The latest animation was requested when no earlier one was in flight.
NotSuperseding ==
  \A j \in 1..(Len(animations) - 1) :
    ~InProgress(animations[j], animations[Len(animations)].startTime)

C22_LoadingEventuallyReady == isLoading ~> ~isLoading

\* The signal is 'ready' after a failed load of the latest request.
C22_Witness ==
  /\ ~isLoading
  /\ Len(loads) >= 2
  /\ loads[Len(loads)].status = "failed"
  /\ modelRef = Len(loads)

-----------------------------------------------------------------------------
(* Re-initialisation of the viewer *)

\* C23: a change of the pain intensity, of the active symptoms or of the
\* selected organ, with the selected system unchanged, starts no load, leaves
\* the entries of the mesh registry as they are and does not create a scene,
\* camera, renderer or render loop again.
C23_HostChangesOnlyTint ==
  [][(/\ selectedSystem' = selectedSystem
      /\ <<selectedOrgan, activeSymptoms, painIntensity>>' #
           <<selectedOrgan, activeSymptoms, painIntensity>>)
       => /\ loads' = loads
          /\ organsRef' = organsRef
          /\ sceneRef' = sceneRef
          /\ RenderLoops' = RenderLoops
          /\ released' = released]_vars

\* C24: at most one render loop is scheduled, so a frame delivered while a
\* model is loaded and the user is not dragging advances the model's rotation
\* by exactly one step.
C24_OneRenderLoop ==
  [][now' # now =>
       /\ RenderLoops <= 1
       /\ (modelRef # NoModel /\ ~dragging)
            => RotationOf(modelRef)' = RotationOf(modelRef) + 1]_vars

\* The models attached to the scene the viewer renders.
Attached == {m \in DOMAIN models : models[m].parent = sceneRef}

\* C25: at most one model is attached to the scene, an attached model is the
\* current model (modelRef), and a model loaded for a system other than
\* the selected one is attached to no scene.
C25_OneModelAttached ==
  /\ Cardinality(Attached) <= 1
  /\ \A m \in Attached : m = modelRef
  /\ \A m \in DOMAIN models :
       loads[m].systemType # selectedSystem => models[m].parent = NoScene

\* C27: the callbacks of a torn-down viewer instance change nothing: a load
\* started for an earlier scene that completes leaves the current model and
\* the mesh registry as they are, and a frame runs the render tick of the
\* current instance only.
C27_TornDownCallbacksInert ==
  [][/\ \A l \in 1..Len(loads) :
          (Settles(l) /\ loads[l].scene # sceneRef) => UNCHANGED <<modelRef, organsRef>>
     /\ (now' # now /\ modelRef # NoModel)
          => RotationOf(modelRef)' <= RotationOf(modelRef) + 1]_vars

-----------------------------------------------------------------------------
(* Bounds of the tints, unnamed meshes *)

\* C26: every mesh that carries the pain tint has an emissive intensity of at
\* most 0.5, which is below the intensity of the selected tint, for every pain
\* intensity of the slider.
C26_PainBelowSelection ==
  hlApplied =>
    \A i \in DOMAIN CurrentMeshes :
      CurrentMeshes[i].emissive = PainColor
        => /\ CurrentMeshes[i].emissiveIntensity <= 500
           /\ CurrentMeshes[i].emissiveIntensity < SelectedIntensity

\* At the largest pain intensity one mesh glows red at 0.5 and another one
\* carries the selected tint.
C26_Witness ==
  /\ hlApplied
  /\ painIntensity = MaxPain
  /\ \E i \in DOMAIN CurrentMeshes :
       /\ CurrentMeshes[i].emissive = PainColor
       /\ CurrentMeshes[i].emissiveIntensity = 500
  /\ \E i \in DOMAIN CurrentMeshes : HasSelectedTint(CurrentMeshes[i])

\* C28: after Apply Highlight State a mesh whose name is the empty string
\* shows no glow, whatever organ is selected and whatever organs are affected.
C28_UnnamedMeshStaysNeutral ==
  hlApplied =>
    \A i \in DOMAIN CurrentMeshes :
      CurrentMeshes[i].name = "" => Glow(CurrentMeshes[i]) = <<Black, 0>>

-----------------------------------------------------------------------------
(* The host's state *)

\* C29: a click that emits the name of an organ of the table makes that organ
\* the selected organ and changes nothing else of the host's state; a click
\* that emits any other name leaves the selected organ, the active symptoms,
\* the pain intensity and the selected system as they are.
C29_SelectOnlyExactName ==
  [][(lastClick' # lastClick /\ lastClick'.emitted # << >>) =>
       IF lastClick'.emitted[1] \in DatabaseNames
       THEN /\ selectedOrgan' = lastClick'.emitted[1]
            /\ UNCHANGED <<selectedSystem, painIntensity, activeSymptoms>>
       ELSE UNCHANGED hostVars]_vars

\* A click on a mesh named as an organ of the table selected it, and a click
\* on a mesh with a raw name left it selected.
C29_Witness ==
  /\ selectedOrgan = "Heart"
  /\ lastClick.emitted = <<"Heart_mesh_01">>

Elements(q) == {q[i] : i \in 1..Len(q)}

\* C30: the active symptoms hold no identifier twice, toggling a symptom
\* twice gives the same set of active symptoms again, and the affected organs
\* handed to the viewer are the organs listed by the active symptoms.
C30_SymptomToggles ==
  /\ \A i, j \in 1..Len(activeSymptoms) :
       i # j => activeSymptoms[i] # activeSymptoms[j]
  /\ \A id \in SymptomIds :
       Elements(ToggleIn(ToggleIn(activeSymptoms, id), id)) = Elements(activeSymptoms)
  /\ Elements(affectedOrgansOf(activeSymptoms)) =
       UNION {Elements(symptomDatabase[k].affectedOrgans) :
                k \in {j \in 1..Len(symptomDatabase) :
                          symptomDatabase[j].id \in Elements(activeSymptoms)}}
  /\ activeSymptoms = << >> => affectedOrgansOf(activeSymptoms) = << >>

\* Two symptoms are active and the viewer is handed their organs.
C30_Witness ==
  /\ Len(activeSymptoms) = 2
  /\ affectedOrgansOf(activeSymptoms) # << >>

=============================================================================
